---- MODULE Spec2Model ----
(***************************************************************************)
(* Model of the travel-chatbot agents:                                     *)
(*   src/backend/agents/travel_group_chat.py   GroupChatManager            *)
(*   src/backend/agents/travel_flight.py       FlightAgent                 *)
(*   src/backend/agents/travel_hotel.py        HotelAgent                  *)
(*                                                                         *)
(* A Python str is a sequence of pieces; user text is a sequence of        *)
(* one-character pieces, so str.lower() and the `in` test are computed.    *)
(* Python's None is NoneVal.  A handler invocation is recorded with what   *)
(* it published, what it sent, which collaborators it called and whether   *)
(* it returned or raised.                                                  *)
(***************************************************************************)
EXTENDS Integers, Sequences, FiniteSets, TLC

VARIABLES
    _session_id,             \* GroupChatManager._session_id
    _conversation_complete,  \* GroupChatManager._conversation_complete
    _chat_history,           \* GroupChatManager._chat_history
    _responses,              \* GroupChatManager._responses
    finalized,               \* history: sessions for which complete=true was handled
    hc,                      \* the coordinator's current / most recent handler invocation
    hs                       \* the most recent specialist handler invocation (bus delivery)

vars == <<_session_id, _conversation_complete, _chat_history, _responses,
          finalized, hc, hs>>

----------------------------------------------------------------------------
(* Bounds and input sets *)

MaxSubtasks == 2

Sessions == {"s1", "s2"}

NoneVal == [kind |-> "None"]

\* User texts (one piece per character).
TxtTravelPlan == <<"t","r","a","v","e","l"," ","p","l","a","n">>
TxtMixedCase  == <<"A"," ","T","r","a","v","e","l"," ","P","L","A","N","!">>
TxtBookFlight == <<"b","o","o","k"," ","a"," ","f","l","i","g","h","t">>
TxtNoSpace    == <<"T","R","A","V","E","L","P","L","A","N">>

TxtHotel      == <<"h","o","t","e","l"," ","p","l","a","n","s">>

Contents == {TxtTravelPlan, TxtMixedCase, TxtBookFlight, TxtNoSpace, TxtHotel}

----------------------------------------------------------------------------
(* str operations *)

\* str.lower() on one character
LowerChar(c) ==
    CASE c = "A" -> "a" [] c = "B" -> "b" [] c = "E" -> "e" [] c = "F" -> "f"
      [] c = "L" -> "l" [] c = "N" -> "n" [] c = "P" -> "p" [] c = "R" -> "r"
      [] c = "T" -> "t" [] c = "V" -> "v"
      [] OTHER -> c

lower(s) == [i \in 1..Len(s) |-> LowerChar(s[i])]

\* Python `p in s` for strings
contains(p, s) ==
    \E i \in 1..(Len(s) - Len(p) + 1) : SubSeq(s, i, i + Len(p) - 1) = p

RECURSIVE join_trailing(_)
join_trailing(parts) ==
    IF Len(parts) = 0 THEN <<>>
    ELSE parts[1] \o <<"\n">> \o join_trailing(Tail(parts))

\* "\n".join(parts)
RECURSIVE join(_)
join(parts) ==
    IF Len(parts) = 0 THEN <<>>
    ELSE IF Len(parts) = 1 THEN parts[1]
    ELSE parts[1] \o <<"\n">> \o join(Tail(parts))

----------------------------------------------------------------------------
(* Message kinds (..data_types) and addressing *)

TopicId(type, source) == [type |-> type, source |-> source]
AgentId(type, key)    == [type |-> type, key |-> key]

Envelope(msg, topic) == [topic |-> topic, msg |-> msg]
Directed(msg, to)    == [to |-> to, msg |-> msg]

EndUserMessage(content) == [kind |-> "EndUserMessage", content |-> content]

HandoffMessage(content, source) ==
    [kind |-> "HandoffMessage", content |-> content, source |-> source]

AgentResponse(source, content) ==
    [kind |-> "AgentResponse", source |-> source, content |-> content]

AgentStructuredResponse(agent_type, data, message) ==
    [kind |-> "AgentStructuredResponse", agent_type |-> agent_type,
     data |-> data, message |-> message]

GroupChatMessage(source, content) ==
    [kind |-> "GroupChatMessage", source |-> source, content |-> content]

TravelRequest(source, content, original_task, requirements, complete) ==
    [kind |-> "TravelRequest", source |-> source, content |-> content,
     original_task |-> original_task, requirements |-> requirements,
     complete |-> complete]

\* One handler invocation's observable outcome.
Invocation(outcome, ret, pubs, calls) ==
    [outcome |-> outcome, ret |-> ret, pubs |-> pubs, calls |-> calls]

Call(collab, arg) == [collab |-> collab, arg |-> arg]

----------------------------------------------------------------------------
(* External collaborators: what they may answer *)

City_NewYork == <<"N","e","w"," ","Y","o","r","k">>
City_Paris   == <<"P","a","r","i","s">>
City_Rome    == <<"R","o","m","e">>
City_LA      == <<"L","A">>

\* json.loads of the language model's answer, before the handler's clean-up
ModelParams ==
    { [departure_city |-> City_NewYork, destination_city |-> City_Paris,
       departure_date |-> <<"2023-12-20">>, return_date |-> <<"2023-12-30">>,
       number_of_passengers |-> 2],
      [departure_city |-> City_Rome, destination_city |-> City_LA,
       departure_date |-> <<"2024-01-05">>, return_date |-> <<"2024-01-09">>,
       number_of_passengers |-> 3] }

\* The chat-completion call either fails (API error, unparsable answer) or
\* answers with a dictionary.
ExtractionReplies ==
    {[ok |-> FALSE]} \cup {[ok |-> TRUE, params |-> p] : p \in ModelParams}

\* tool_agent_caller_loop either raises or ends with a text message.
LoopReplies ==
    {[ok |-> FALSE], [ok |-> TRUE, content |-> <<"Hilton, Deluxe, Paris">>]}

\* random.randint(1000, 9999): both ends of the range
RefNumbers == {1000, 9999}

----------------------------------------------------------------------------
(* travel_flight.py *)

UpperChar(c) ==
    CASE c = "a" -> "A" [] c = "r" -> "R" [] c = "i" -> "I" [] c = "s" -> "S"
      [] c = "o" -> "O" [] c = "m" -> "M" [] c = "e" -> "E" [] c = "w" -> "W"
      [] c = "k" -> "K"
      [] OTHER -> c

upper(s) == [i \in 1..Len(s) |-> UpperChar(s[i])]

\* s[:n]
prefix(s, n) == SubSeq(s, 1, IF Len(s) < n THEN Len(s) ELSE n)

\* s.replace(old, "")
RECURSIVE remove(_, _)
remove(s, old) ==
    IF Len(s) < Len(old) \/ Len(old) = 0 THEN s
    ELSE IF SubSeq(s, 1, Len(old)) = old
         THEN remove(SubSeq(s, Len(old) + 1, Len(s)), old)
         ELSE <<s[1]>> \o remove(Tail(s), old)

\* .replace("\n", "").replace(" ", "").replace("python", "") and the removal
\* of back quotes (the piece "backquote"), applied to the answer text; its
\* effect on one string value of the answer
cleanup(s) ==
    remove(remove(remove(remove(s, <<"\n">>), <<" ">>),
                  <<"p","y","t","h","o","n">>), <<"backquote">>)

flight_options ==
    << [airline |-> "Air France", flight_number |-> "AF123", price_per_ticket |-> 200],
       [airline |-> "Delta", flight_number |-> "DL456", price_per_ticket |-> 250],
       [airline |-> "British Airways", flight_number |-> "BA789", price_per_ticket |-> 300],
       [airline |-> "Lufthansa", flight_number |-> "LH101", price_per_ticket |-> 220],
       [airline |-> "Emirates", flight_number |-> "EK202", price_per_ticket |-> 400] >>

\* simulate_flight_booking raises TypeError when flight_params is None
\* (None["departure_city"]).
simulate_flight_booking_raises(flight_params) == flight_params = NoneVal

simulate_flight_booking_two_passengers(flight_params, choice, ref) ==
    LET selected_flight == flight_options[choice]
    IN  [kind |-> "FlightBooking",
         departure_city |-> flight_params.departure_city,
         destination_city |-> flight_params.destination_city,
         departure_date |-> flight_params.departure_date,
         return_date |-> flight_params.return_date,
         airline |-> selected_flight.airline,
         flight_number |-> selected_flight.flight_number,
         total_price |-> 2 * selected_flight.price_per_ticket,
         booking_reference |->
             <<"FL-", ref, "-">> \o upper(prefix(flight_params.destination_city, 3)),
         number_of_passengers |-> 2]

\* simulate_flight_booking(flight_params) with random.choice = choice and
\* random.randint = ref
simulate_flight_booking(flight_params, choice, ref) ==
    LET selected_flight == flight_options[choice]
    IN  [kind |-> "FlightBooking",
         departure_city |-> flight_params.departure_city,
         destination_city |-> flight_params.destination_city,
         departure_date |-> flight_params.departure_date,
         return_date |-> flight_params.return_date,
         airline |-> selected_flight.airline,
         flight_number |-> selected_flight.flight_number,
         total_price |-> 2 * selected_flight.price_per_ticket,
         booking_reference |->
             <<"FL-", ref, "-">> \o upper(prefix(flight_params.destination_city, 3)),
         number_of_passengers |-> flight_params.number_of_passengers]

\* FlightAgent._get_flight_details: the parsed dictionary, or None when
\* anything in the try block raised (the bare except falls through).
_get_flight_details(reply) ==
    IF reply.ok
    THEN [departure_city |-> cleanup(reply.params.departure_city),
          destination_city |-> cleanup(reply.params.destination_city),
          departure_date |-> cleanup(reply.params.departure_date),
          return_date |-> cleanup(reply.params.return_date),
          number_of_passengers |-> reply.params.number_of_passengers]
    ELSE NoneVal

\* The handoff test of both specialists' handle_message.
handoff_trigger_cased(content) == contains(TxtTravelPlan, content)
handoff_trigger(content) == contains(TxtTravelPlan, lower(content))

FlightType == "flight_booking"
HotelType  == "hotel_booking"

\* FlightAgent.handle_message
FlightAgent_handle_message(message, source, reply, choice, ref) ==
    IF handoff_trigger(message.content)
    THEN Invocation("returned", NoneVal,
            << Envelope(HandoffMessage(message.content, FlightType),
                        TopicId("router", source)) >>,
            <<>>)
    ELSE LET flight_params == _get_flight_details(reply)
             calls == << Call("extract", message.content),
                         Call("book", flight_params) >>
         IN  IF simulate_flight_booking_raises(flight_params)
             THEN Invocation("raised", NoneVal, <<>>, calls)
             ELSE Invocation("returned", NoneVal,
                    << Envelope(
                         AgentStructuredResponse(FlightType,
                            simulate_flight_booking(flight_params, choice, ref),
                            <<"Simulated response: Flight booking processed successfully for query - ">>
                              \o message.content),
                         TopicId("user_proxy", source)) >>,
                    calls)

\* FlightAgent.handle_travel_request: simulate_flight_booking() is called
\* without its required argument, so the call raises TypeError before the
\* function body runs.
FlightAgent_handle_travel_request(message, source) ==
    Invocation("raised", NoneVal, <<>>, <<>>)

----------------------------------------------------------------------------
(* travel_hotel.py *)

\* HotelAgent._process_request
_process_request(message_content, reply) ==
    IF reply.ok THEN reply.content
    ELSE <<"Failed to book hotel. Please try again.">>

HotelPublish(response_content, source) ==
    Envelope(AgentResponse(HotelType, <<"Hotel booked: ">> \o response_content),
             TopicId("user_proxy", source))

HotelAgent_handle_message_no_return(message, source, reply) ==
    Invocation("returned", NoneVal,
        (IF handoff_trigger(message.content)
         THEN << Envelope(HandoffMessage(message.content, HotelType),
                          TopicId("router", source)) >>
         ELSE <<>>)
          \o << HotelPublish(_process_request(message.content, reply), source) >>,
        << Call("tool_loop", message.content) >>)

\* HotelAgent.handle_message
HotelAgent_handle_message(message, source, reply) ==
    IF handoff_trigger(message.content)
    THEN Invocation("returned", NoneVal,
            << Envelope(HandoffMessage(message.content, HotelType),
                        TopicId("router", source)) >>,
            <<>>)
    ELSE Invocation("returned", NoneVal,
            << HotelPublish(_process_request(message.content, reply), source) >>,
            << Call("tool_loop", message.content) >>)

\* HotelAgent.handle_travel_request: publishes, returns None
HotelAgent_handle_travel_request(message, source, reply) ==
    Invocation("returned", NoneVal,
        << HotelPublish(_process_request(message.content, reply), source) >>,
        << Call("tool_loop", message.content) >>)

----------------------------------------------------------------------------
(* travel_group_chat.py *)

ManagerName == "GroupChatManager"

\* @type_subscription("group_chat_manager"): ctx.topic_id.type of every
\* message the bus delivers to the coordinator, as the str it is.
ManagerTopicType ==
    <<"g","r","o","u","p","_","c","h","a","t","_","m","a","n","a","g","e","r">>

\* A specialist type that is not part of these sources; it answers a
\* directed TravelRequest with a GroupChatMessage, or raises.
CarRentalType == "car_rental"

AssignableAgents == {FlightType, HotelType, CarRentalType}

ExternalReplies ==
    {[ok |-> FALSE], [ok |-> TRUE, content |-> <<"r1">>],
     [ok |-> TRUE, content |-> <<"r2">>]}

Subtask(agent) ==
    [assigned_agent |-> agent, task_details |-> <<"details for ", agent>>]

Plans ==
    { [kind |-> "TravelPlan", main_task |-> <<"plan my trip">>, subtasks |-> st] :
        st \in UNION { [1..n -> {Subtask(a) : a \in AssignableAgents}] :
                         n \in 0..MaxSubtasks } }

Pending == [outcome |-> "pending"]

\* No handler of the coordinator is in flight.
Quiescent == hc.pc \in {"idle", "done", "raised", "ignored"}

HandlerState(kind, msg, source, pc, pubs, sends, calls, done) ==
    [kind |-> kind, msg |-> msg, source |-> source, pc |-> pc, pubs |-> pubs,
     sends |-> sends, calls |-> calls, done |-> done]

\* GroupChatManager.request_relevant_agents: one publish per element of
\* relevant_agents, in iteration order.
request_relevant_agents(relevant_agents, session_id) ==
    [i \in 1..Len(relevant_agents) |->
        Envelope(TravelRequest(ManagerName,
                               <<"Provide details for the travel plan">>,
                               NoneVal, [destination_city |-> City_Paris], FALSE),
                 TopicId(relevant_agents[i], session_id))]

\* self._session_id = ctx.topic_id.source
record_session_once(current, source) == IF current = "None" THEN source ELSE current

record_session(current, source) == source

\* GroupChatManager.handle_travel_request (EndUserMessage); the publishes of
\* request_relevant_agents read self._session_id.
handle_travel_request(s, content) ==
    /\ Quiescent
    /\ _session_id' = record_session(_session_id, s)
    /\ hc' = HandlerState("EndUserMessage", EndUserMessage(content), s, "done",
                          request_relevant_agents(ManagerTopicType, _session_id'),
                          <<>>, <<>>, <<>>)
    /\ UNCHANGED <<_conversation_complete, _chat_history, _responses, finalized, hs>>

\* The list of directed sends built by handle_complex_travel_request.
tasks_wrong_original(message, session_id) ==
    [i \in 1..Len(message.subtasks) |->
        Directed(TravelRequest(ManagerName, message.subtasks[i].task_details,
                               message.subtasks[i].task_details, NoneVal, FALSE),
                 AgentId(message.subtasks[i].assigned_agent, session_id))]

tasks(message, session_id) ==
    [i \in 1..Len(message.subtasks) |->
        Directed(TravelRequest(ManagerName, message.subtasks[i].task_details,
                               message.main_task, NoneVal, FALSE),
                 AgentId(message.subtasks[i].assigned_agent, session_id))]

\* GroupChatManager.handle_complex_travel_request (TravelPlan), up to the
\* await of asyncio.gather: every send is created and scheduled.
handle_complex_travel_request(s, plan) ==
    /\ Quiescent
    /\ _session_id' = record_session(_session_id, s)
    /\ hc' = HandlerState("TravelPlan", plan, s, "gather", <<>>,
                          tasks(plan, _session_id'),
                          [i \in 1..Len(plan.subtasks) |-> Pending], <<>>)
    /\ UNCHANGED <<_conversation_complete, _chat_history, _responses, finalized, hs>>

\* What the specialist addressed by a directed request does with it.  The
\* session the specialist sees is the key of the AgentId it was addressed by.
SpecialistInvocations(req) ==
    IF req.to.type = FlightType
    THEN {FlightAgent_handle_travel_request(req.msg, req.to.key)}
    ELSE IF req.to.type = HotelType
    THEN {HotelAgent_handle_travel_request(req.msg, req.to.key, r) : r \in LoopReplies}
    ELSE {IF r.ok
          THEN Invocation("returned", GroupChatMessage(req.to.type, r.content), <<>>, <<>>)
          ELSE Invocation("raised", NoneVal, <<>>, <<>>) : r \in ExternalReplies}

\* The sends whose request has reached its specialist: the list of sends is
\* built whole and gather schedules every one of them before the handler
\* waits.
issued_one_by_one(h) ==
    {j \in 1..Len(h.sends) : \A i \in 1..(j - 1) : h.calls[i].outcome = "returned"}

issued(h) == 1..Len(h.sends)

\* One awaited send completes.  An exception is propagated by gather to
\* the awaiting handler at once, which then raises.
SpecialistReplies(i) ==
    /\ hc.pc = "gather"
    /\ i \in issued(hc)
    /\ hc.calls[i] = Pending
    /\ \E inv \in SpecialistInvocations(hc.sends[i]) :
         hc' = [hc EXCEPT !.calls[i] = inv,
                          !.done = Append(@, i),
                          !.pc = IF inv.outcome = "raised" THEN "raised" ELSE @]
    /\ UNCHANGED <<_session_id, _conversation_complete, _chat_history, _responses,
                   finalized, hs>>

\* The collaborator a specialist awaits never answers, so its reply never
\* comes.  FlightAgent awaits nothing on this path.
SpecialistHangs(i) ==
    /\ hc.pc = "gather"
    /\ i \in issued(hc)
    /\ hc.calls[i] = Pending
    /\ hc.sends[i].to.type # FlightType
    /\ hc' = [hc EXCEPT !.calls[i] = [outcome |-> "hung"]]
    /\ UNCHANGED <<_session_id, _conversation_complete, _chat_history, _responses,
                   finalized, hs>>

\* asyncio.gather(*tasks): the results in the order of the awaitables
gather_completion_order(h) == [k \in 1..Len(h.done) |-> h.calls[h.done[k]].ret]

gather(h) == [i \in 1..Len(h.calls) |-> h.calls[i].ret]

gather_ready(h) == \A i \in 1..Len(h.calls) : h.calls[i].outcome = "returned"

PlanHeader == <<"Here is your comprehensive travel plan:\n">>

\* handle_complex_travel_request after the gather: compile and publish.
\* response.content on a None result raises AttributeError.
compile ==
    /\ hc.pc = "gather"
    /\ gather_ready(hc)
    /\ LET group_results == gather(hc)
       IN  IF \E i \in 1..Len(group_results) : group_results[i] = NoneVal
           THEN hc' = [hc EXCEPT !.pc = "raised"]
           ELSE LET final_plan ==
                      join([i \in 1..Len(group_results) |-> group_results[i].content])
                IN  hc' = [hc EXCEPT
                             !.pc = "done",
                             !.pubs = << Envelope(
                                           AgentResponse(ManagerName,
                                                         PlanHeader \o final_plan),
                                           TopicId("user_proxy", hc.source)) >>]
    /\ UNCHANGED <<_session_id, _conversation_complete, _chat_history, _responses,
                   finalized, hs>>

\* if message.complete: self._conversation_complete = True
completion_assigned(current, message) == message.complete

completion_after(current, message) == IF message.complete THEN TRUE ELSE current

\* GroupChatManager.handle_handoff (TravelRequest).  compile_final_plan is
\* defined nowhere in the class: the call raises AttributeError.
handle_handoff(s, source, complete) ==
    /\ Quiescent
    /\ LET message == TravelRequest(source, <<"handoff">>, NoneVal, NoneVal, complete)
       IN  /\ _conversation_complete' = completion_after(_conversation_complete, message)
           /\ IF message.complete
              THEN /\ finalized' = finalized \cup {s}
                   /\ hc' = HandlerState("TravelRequest", message, s, "done",
                                         <<>>, <<>>, <<>>, <<>>)
              ELSE /\ hc' = HandlerState("TravelRequest", message, s, "raised",
                                         <<>>, <<>>, <<>>, <<>>)
                   /\ UNCHANGED finalized
    /\ UNCHANGED <<_session_id, _chat_history, _responses, hs>>

----------------------------------------------------------------------------
(* Bus deliveries to the specialists *)

Delivery(agent, msg, source, reply, inv) ==
    [agent |-> agent, msg |-> msg, source |-> source,
     reply |-> IF inv.calls = <<>> THEN NoneVal ELSE reply, inv |-> inv]

CoordinatorUnchanged ==
    UNCHANGED <<_session_id, _conversation_complete, _chat_history, _responses,
                finalized, hc>>

FlightHandlesMessage(s, content) ==
    /\ \E reply \in ExtractionReplies, choice \in 1..Len(flight_options),
          ref \in RefNumbers :
         hs' = Delivery(FlightType, EndUserMessage(content), s, reply,
                  FlightAgent_handle_message(EndUserMessage(content), s,
                                             reply, choice, ref))
    /\ CoordinatorUnchanged

HotelHandlesMessage(s, content) ==
    /\ \E reply \in LoopReplies :
         hs' = Delivery(HotelType, EndUserMessage(content), s, reply,
                  HotelAgent_handle_message(EndUserMessage(content), s, reply))
    /\ CoordinatorUnchanged

BusTravelRequest ==
    TravelRequest(ManagerName, <<"Provide details for the travel plan">>,
                  NoneVal, [destination_city |-> City_Paris], FALSE)

FlightHandlesTravelRequest(s) ==
    /\ hs' = Delivery(FlightType, BusTravelRequest, s, NoneVal,
                FlightAgent_handle_travel_request(BusTravelRequest, s))
    /\ CoordinatorUnchanged

HotelHandlesTravelRequest(s) ==
    /\ \E reply \in LoopReplies :
         hs' = Delivery(HotelType, BusTravelRequest, s, reply,
                  HotelAgent_handle_travel_request(BusTravelRequest, s, reply))
    /\ CoordinatorUnchanged

----------------------------------------------------------------------------
(* Dispatch by message kind: the @message_handler methods of each class *)

ManagerType == "group_chat_manager"

message_handlers(agent) ==
    IF agent = ManagerType
    THEN {"EndUserMessage", "TravelPlan", "TravelRequest"}
    ELSE {"EndUserMessage", "TravelRequest"}

handles_handoff_too(agent, kind) ==
    kind = "HandoffMessage" \/ kind \in message_handlers(agent)

handles(agent, kind) == kind \in message_handlers(agent)

\* HandoffMessages are published by the specialists, with a text that holds
\* the trigger.
HandoffMessages ==
    {HandoffMessage(content, source) :
        content \in {TxtTravelPlan, TxtMixedCase}, source \in {FlightType, HotelType}}

\* An envelope of a kind the agent registers no handler for is dropped.  A
\* handler that accepted the kind would run on its content.
SpecialistGetsHandoff(agent, s, msg) ==
    /\ IF handles(agent, msg.kind)
       THEN IF agent = FlightType
            THEN \E reply \in ExtractionReplies, choice \in 1..Len(flight_options),
                    ref \in RefNumbers :
                   hs' = Delivery(agent, msg, s, reply,
                            FlightAgent_handle_message(msg, s, reply, choice, ref))
            ELSE \E reply \in LoopReplies :
                   hs' = Delivery(agent, msg, s, reply,
                            HotelAgent_handle_message(msg, s, reply))
       ELSE hs' = Delivery(agent, msg, s, NoneVal,
                           Invocation("ignored", NoneVal, <<>>, <<>>))
    /\ CoordinatorUnchanged

CoordinatorGetsHandoff(s, msg) ==
    /\ Quiescent
    /\ IF handles(ManagerType, msg.kind)
       THEN /\ _session_id' = record_session(_session_id, s)
            /\ hc' = HandlerState(msg.kind, msg, s, "done",
                                  request_relevant_agents(ManagerTopicType, _session_id'),
                                  <<>>, <<>>, <<>>)
       ELSE /\ hc' = HandlerState(msg.kind, msg, s, "ignored", <<>>, <<>>, <<>>, <<>>)
            /\ UNCHANGED _session_id
    /\ UNCHANGED <<_conversation_complete, _chat_history, _responses, finalized, hs>>

----------------------------------------------------------------------------
(* Specification *)

Init ==
    /\ _session_id = "None"
    /\ _conversation_complete = FALSE
    /\ _chat_history = <<>>
    /\ _responses = <<>>
    /\ finalized = {}
    /\ hc = HandlerState("none", NoneVal, "None", "idle", <<>>, <<>>, <<>>, <<>>)
    /\ hs = [agent |-> "none", msg |-> NoneVal, source |-> "None",
             reply |-> NoneVal, inv |-> Invocation("none", NoneVal, <<>>, <<>>)]

\* The coordinator instance: its three handlers and the directed calls its
\* TravelPlan handler awaits.
Next ==
    \/ \E s \in Sessions, content \in Contents : handle_travel_request(s, content)
    \/ \E s \in Sessions, plan \in Plans : handle_complex_travel_request(s, plan)
    \/ \E i \in 1..MaxSubtasks : SpecialistReplies(i)
    \/ \E i \in 1..MaxSubtasks : SpecialistHangs(i)
    \/ compile
    \/ \E s \in Sessions, source \in {FlightType, HotelType}, complete \in BOOLEAN :
         handle_handoff(s, source, complete)

Spec == Init /\ [][Next]_vars

\* Every step the coordinator or an awaited specialist can take is
\* eventually taken: the event loop runs every ready task.
FairSpec == Spec /\ WF_vars(Next)

\* The specialist instances as the bus delivers to them.  They share no state
\* with the coordinator, so they are explored on their own.
SpecialistNext ==
    \/ \E s \in Sessions, content \in Contents : FlightHandlesMessage(s, content)
    \/ \E s \in Sessions, content \in Contents : HotelHandlesMessage(s, content)
    \/ \E s \in Sessions : FlightHandlesTravelRequest(s)
    \/ \E s \in Sessions : HotelHandlesTravelRequest(s)

SpecialistSpec == Init /\ [][SpecialistNext]_vars

----------------------------------------------------------------------------
(* Properties *)

IsPlan == hc.kind = "TravelPlan"
Finished == hc.pc \in {"done", "raised"}
Returned(h) == {i \in 1..Len(h.calls) : h.calls[i].outcome = "returned"}
ToUserProxy(pubs) == {k \in 1..Len(pubs) : pubs[k].topic.type = "user_proxy"}
RepoSpecialists == {FlightType, HotelType}

\* C1: the AgentResponse compiled for a TravelPlan carries the header followed
\* by the replies' contents joined in the order of TravelPlan.subtasks: the
\* i-th sub-answer is what the specialist of the i-th subtask returned,
\* whatever the order in which the replies completed.
C1_SubtaskOrder ==
    (IsPlan /\ hc.pc = "done") =>
        /\ Len(hc.pubs) = 1
        /\ hc.pubs[1].msg.kind = "AgentResponse"
        /\ \A i \in 1..Len(hc.msg.subtasks) :
             hc.calls[i].ret.source = hc.msg.subtasks[i].assigned_agent
        /\ hc.pubs[1].msg.content =
             PlanHeader \o join([i \in 1..Len(hc.msg.subtasks) |->
                                    hc.calls[i].ret.content])

\* C1 witness: a two-subtask plan compiled after the second reply completed
\* first, with different reply contents.
C1_Witness ==
    /\ IsPlan /\ hc.pc = "done"
    /\ hc.done = <<2, 1>>
    /\ hc.calls[1].ret.content # hc.calls[2].ret.content
    /\ Len(hc.pubs) = 1

\* C2: for a TravelPlan with N subtasks on session s the coordinator has
\* issued exactly N directed TravelRequests, the i-th to
\* AgentId(subtasks[i].assigned_agent, s) with original_task = main_task, and
\* while fewer than N replies have been received it has published nothing.
C2_FanOutAndBarrier ==
    IsPlan =>
        LET N == Len(hc.msg.subtasks)
        IN  /\ Len(hc.sends) = N
            /\ \A i \in 1..N :
                 /\ hc.sends[i].to = [type |-> hc.msg.subtasks[i].assigned_agent,
                                      key |-> hc.source]
                 /\ hc.sends[i].msg.kind = "TravelRequest"
                 /\ hc.sends[i].msg.original_task = hc.msg.main_task
            /\ (Cardinality(Returned(hc)) < N => hc.pubs = <<>>)

\* C2 witness: two requests issued, one reply in, the barrier still closed.
C2_Witness ==
    /\ IsPlan /\ hc.pc = "gather"
    /\ Len(hc.sends) = 2
    /\ Cardinality(Returned(hc)) = 1
    /\ hc.pubs = <<>>

PhraseUpper == <<"T","R","A","V","E","L"," ","P","L","A","N">>

\* The text holds the phrase "travel plan" with each letter in either case.
HasPhraseAnyCase(content) ==
    \E i \in 0..(Len(content) - Len(PhraseUpper)) :
        \A k \in 1..Len(PhraseUpper) :
            content[i + k] \in {PhraseUpper[k], TxtTravelPlan[k]}

\* C3: a specialist's EndUserMessage handler, given a text that holds
\* "travel plan" in any letter case, publishes exactly one HandoffMessage with
\* the text and its own agent type to the router topic of the session, calls
\* no collaborator and publishes nothing else.
C3_Handoff ==
    (hs.msg.kind = "EndUserMessage" /\ HasPhraseAnyCase(hs.msg.content)) =>
        hs.inv = Invocation("returned", NoneVal,
                    << Envelope(HandoffMessage(hs.msg.content, hs.agent),
                                TopicId("router", hs.source)) >>,
                    <<>>)

\* C3 witness: FlightAgent handed off a mixed-case text.
C3_Witness ==
    /\ hs.agent = FlightType
    /\ hs.msg.kind = "EndUserMessage"
    /\ hs.msg.content = TxtMixedCase
    /\ Len(hs.inv.pubs) = 1
    /\ hs.inv.pubs[1].msg.kind = "HandoffMessage"

\* C4: a message handled for a session after a TravelRequest with
\* complete=true was handled for it produces no published envelope and no
\* directed request.
C4_FinalizedIsNoOp ==
    (hc.source \in finalized /\ ~(hc.kind = "TravelRequest" /\ hc.msg.complete)) =>
        (hc.pubs = <<>> /\ hc.sends = <<>>)

\* C5: a TravelPlan handler waiting at the barrier for a specialist that
\* never replies eventually publishes a response to user_proxy and finishes.
C5_BarrierTimeout ==
    (IsPlan /\ hc.pc = "gather" /\ \E i \in 1..Len(hc.calls) : hc.calls[i].outcome = "hung")
        ~> (hc.pc = "done" /\ ToUserProxy(hc.pubs) # {})

\* C6: a FlightAgent or HotelAgent that has handled a directed TravelRequest
\* returned a GroupChatMessage whose source is its own agent type and
\* published nothing to user_proxy.
C6_DirectedReply ==
    \A i \in 1..Len(hc.calls) :
        (hc.sends[i].to.type \in RepoSpecialists
           /\ hc.calls[i].outcome \notin {"pending", "hung"}) =>
            /\ hc.calls[i].outcome = "returned"
            /\ hc.calls[i].ret.kind = "GroupChatMessage"
            /\ hc.calls[i].ret.source = hc.sends[i].to.type
            /\ ToUserProxy(hc.calls[i].pubs) = {}

\* C7: a TravelPlan handler whose subtasks all go to flight_booking and
\* hotel_booking, once finished, has published exactly one AgentResponse of
\* GroupChatManager to the session's user_proxy topic, the sub-responses
\* joined in subtask order.
C7_CompiledReply ==
    (IsPlan /\ Finished
       /\ \A i \in 1..Len(hc.msg.subtasks) :
            hc.msg.subtasks[i].assigned_agent \in RepoSpecialists) =>
        /\ hc.pc = "done"
        /\ Len(hc.pubs) = 1
        /\ hc.pubs[1].topic = TopicId("user_proxy", hc.source)
        /\ hc.pubs[1].msg.kind = "AgentResponse"
        /\ hc.pubs[1].msg.source = ManagerName
        /\ hc.pubs[1].msg.content =
             PlanHeader \o join([i \in 1..Len(hc.calls) |-> hc.calls[i].ret.content])

\* C8: a specialist handler whose collaborator failed completes normally and
\* returns or publishes exactly one message, for the same session.
C8_CollaboratorFailure ==
    (hs.reply = [ok |-> FALSE]) =>
        /\ hs.inv.outcome = "returned"
        /\ Len(hs.inv.pubs) + (IF hs.inv.ret = NoneVal THEN 0 ELSE 1) = 1
        /\ \A k \in 1..Len(hs.inv.pubs) : hs.inv.pubs[k].topic.source = hs.source

\* C9: handle_handoff with complete=true marks the session finalized and
\* issues nothing; with complete=false it finishes normally.
C9_Handoff ==
    (hc.kind = "TravelRequest") =>
        IF hc.msg.complete
        THEN /\ _conversation_complete /\ hc.source \in finalized
             /\ hc.pc = "done" /\ hc.pubs = <<>> /\ hc.sends = <<>>
        ELSE hc.pc = "done"

AgentTypeNames ==
    {FlightType, HotelType, CarRentalType, "group_chat_manager", "router", "user_proxy"}

\* C10: the EndUserMessage handler records the session key and publishes one
\* TravelRequest per relevant agent type, each to that agent type's topic of
\* the session: every topic type is an agent type's name and none is used twice.
C10_RelevantAgents ==
    (hc.kind = "EndUserMessage") =>
        /\ _session_id = hc.source
        /\ \A k \in 1..Len(hc.pubs) :
             /\ hc.pubs[k].msg.kind = "TravelRequest"
             /\ hc.pubs[k].topic.source = hc.source
             /\ hc.pubs[k].topic.type \in AgentTypeNames
             /\ \A j \in 1..Len(hc.pubs) :
                  j # k => hc.pubs[j].topic.type # hc.pubs[k].topic.type

C12_ThrowGivesPartialPlan ==
    (IsPlan /\ Finished
       /\ \E i \in 1..Len(hc.calls) :
            hc.calls[i].outcome = "raised" /\ hc.sends[i].to.type \notin RepoSpecialists) =>
        /\ hc.pc = "done"
        /\ \E k \in ToUserProxy(hc.pubs) : hc.pubs[k].topic.source = hc.source

\* C13: in a specialist handler the booking collaborator is called only
\* after an extraction call that succeeded, and with the parameters that
\* extraction produced; never with None.
C13_BookingAfterExtraction ==
    \A k \in 1..Len(hs.inv.calls) :
        hs.inv.calls[k].collab = "book" =>
            /\ \E j \in 1..(k - 1) : hs.inv.calls[j].collab = "extract"
            /\ hs.reply.ok
            /\ hs.inv.calls[k].arg # NoneVal
            /\ hs.inv.calls[k].arg = _get_flight_details(hs.reply)

\* HandoffMessages on the bus, among the coordinator's single-step handlers.
DispatchNext ==
    \/ \E s \in Sessions, content \in Contents : handle_travel_request(s, content)
    \/ \E s \in Sessions, source \in {FlightType, HotelType}, complete \in BOOLEAN :
         handle_handoff(s, source, complete)
    \/ \E agent \in {FlightType, HotelType}, s \in Sessions, msg \in HandoffMessages :
         SpecialistGetsHandoff(agent, s, msg)
    \/ \E s \in Sessions, msg \in HandoffMessages : CoordinatorGetsHandoff(s, msg)

DispatchSpec == Init /\ [][DispatchNext]_vars

\* C14: a HandoffMessage delivered to FlightAgent, HotelAgent or
\* GroupChatManager is ignored: no collaborator call, no envelope published,
\* no directed request, and the agent's fields keep their values.
C14_HandoffIgnored ==
    [][ /\ (hs' # hs /\ hs'.msg.kind = "HandoffMessage") =>
             /\ hs'.inv = Invocation("ignored", NoneVal, <<>>, <<>>)
             /\ UNCHANGED <<_session_id, _conversation_complete, _chat_history,
                            _responses, hc>>
        /\ (hc' # hc /\ hc'.kind = "HandoffMessage") =>
             /\ hc'.pubs = <<>> /\ hc'.sends = <<>> /\ hc'.pc = "ignored"
             /\ UNCHANGED <<_session_id, _conversation_complete, _chat_history,
                            _responses, hs>>
      ]_vars

\* C14 witness: both a specialist and the coordinator have dropped a
\* HandoffMessage, the coordinator after it had recorded a session and a
\* completion.
C14_Witness ==
    /\ hs.msg.kind = "HandoffMessage" /\ hs.inv.outcome = "ignored"
    /\ hc.kind = "HandoffMessage" /\ hc.pc = "ignored"
    /\ _conversation_complete /\ _session_id = "s1" /\ hc.source = "s2"

\* The booking record a specialist published, with the parameters its
\* booking call was given.
Booked ==
    /\ hs.inv.outcome = "returned"
    /\ Len(hs.inv.pubs) = 1
    /\ hs.inv.pubs[1].msg.kind = "AgentStructuredResponse"

\* C15: the booking record simulate_flight_booking returns carries the
\* departure_city, destination_city, departure_date, return_date and
\* number_of_passengers it was given, whichever flight option was selected.
C15_BookingEchoesParams ==
    Booked =>
        LET data == hs.inv.pubs[1].msg.data
            given == hs.inv.calls[2].arg
        IN  /\ hs.inv.calls[2].collab = "book"
            /\ data.departure_city = given.departure_city
            /\ data.destination_city = given.destination_city
            /\ data.departure_date = given.departure_date
            /\ data.return_date = given.return_date
            /\ data.number_of_passengers = given.number_of_passengers

\* C15 witness: a booking for three passengers on the last flight option.
C15_Witness ==
    /\ Booked
    /\ hs.inv.pubs[1].msg.data.airline = "Emirates"
    /\ hs.inv.calls[2].arg.number_of_passengers = 3
    /\ hs.inv.calls[2].arg.destination_city = City_LA

\* C16: while the TravelPlan handler waits, every subtask's request has been
\* issued to its specialist, and a specialist that has not answered yet can
\* answer whatever the state of the other sub-requests: no dispatch waits
\* for another subtask's reply.
C16_ConcurrentDispatch ==
    (IsPlan /\ hc.pc = "gather") =>
        \A j \in 1..Len(hc.msg.subtasks) :
            /\ j \in 1..Len(hc.sends)
            /\ hc.sends[j].to.type = hc.msg.subtasks[j].assigned_agent
            /\ (hc.calls[j] = Pending => ENABLED SpecialistReplies(j))

\* C16 witness: the first specialist never replies and the second has
\* received its request and replied.
C16_Witness ==
    /\ IsPlan /\ hc.pc = "gather"
    /\ Len(hc.sends) = 2
    /\ hc.calls[1].outcome = "hung"
    /\ hc.calls[2].outcome = "returned"

\* C17: once _conversation_complete is true no handler invocation, of any
\* message kind, sets it back to false.
C17_CompleteIsTerminal ==
    [][_conversation_complete => _conversation_complete']_vars

\* C17 witness: a TravelRequest with complete=false was handled after the
\* completion and the flag is still set.
C17_Witness ==
    /\ _conversation_complete
    /\ hc.kind = "TravelRequest"
    /\ ~hc.msg.complete

\* C18: an EndUserMessage a specialist handled to normal completion on
\* session s left exactly one published envelope, with topic source s: a
\* HandoffMessage on the router topic or a response on the user_proxy topic.
C18_OneEnvelopePerMessage ==
    (hs.msg.kind = "EndUserMessage" /\ hs.inv.outcome = "returned") =>
        /\ Len(hs.inv.pubs) = 1
        /\ hs.inv.pubs[1].topic.source = hs.source
        /\ \/ /\ hs.inv.pubs[1].topic.type = "router"
              /\ hs.inv.pubs[1].msg.kind = "HandoffMessage"
           \/ /\ hs.inv.pubs[1].topic.type = "user_proxy"
              /\ hs.inv.pubs[1].msg.kind \in {"AgentResponse", "AgentStructuredResponse"}

\* C18 witness: HotelAgent answered a text without the trigger on session s2
\* after its tool loop failed, with one AgentResponse.
C18_Witness ==
    /\ hs.agent = HotelType /\ hs.source = "s2"
    /\ hs.msg.kind = "EndUserMessage" /\ hs.msg.content = TxtHotel
    /\ hs.reply = [ok |-> FALSE]
    /\ Len(hs.inv.pubs) = 1
    /\ hs.inv.pubs[1].msg.kind = "AgentResponse"

\* Where the i-th reply's content starts in the text after the header, if
\* the replies are laid out one after the other with one separator between.
RECURSIVE ReplyOffset(_, _)
ReplyOffset(h, i) ==
    IF i = 1 THEN 0
    ELSE ReplyOffset(h, i - 1) + Len(h.calls[i - 1].ret.content) + 1

\* C19: a TravelPlan without subtasks issues no directed request, can always
\* be compiled, and ends with exactly one AgentResponse on the session's
\* user_proxy topic whose content is the header alone; with N >= 1 subtasks
\* the content is the header, then the N reply contents in turn, with exactly
\* one newline between two consecutive contents and none after the last.
C19_PlanText ==
    IsPlan =>
        LET N == Len(hc.msg.subtasks)
        IN  /\ (N = 0) =>
                 /\ hc.sends = <<>>
                 /\ (hc.pc = "gather" => ENABLED compile)
                 /\ Finished =>
                      hc.pubs = << Envelope(AgentResponse(ManagerName, PlanHeader),
                                            TopicId("user_proxy", hc.source)) >>
            /\ (N >= 1 /\ hc.pc = "done") =>
                 /\ Len(hc.pubs) = 1
                 /\ LET content == hc.pubs[1].msg.content
                        body == SubSeq(content, Len(PlanHeader) + 1, Len(content))
                    IN  /\ SubSeq(content, 1, Len(PlanHeader)) = PlanHeader
                        /\ Len(body) = ReplyOffset(hc, N) + Len(hc.calls[N].ret.content)
                        /\ \A i \in 1..N :
                             LET at == ReplyOffset(hc, i)
                                 c == hc.calls[i].ret.content
                             IN  /\ SubSeq(body, at + 1, at + Len(c)) = c
                                 /\ (i < N => body[at + Len(c) + 1] = "\n")

\* C19 witness: the plan without subtasks, compiled.
C19_Witness ==
    /\ IsPlan /\ hc.pc = "done"
    /\ hc.msg.subtasks = <<>>
    /\ hc.pubs[1].msg.content = PlanHeader

====
